---- MODULE Spec2Model ----
(***************************************************************************)
(* Model of the go-url-shortener mapping layer: the package-level store of *)
(* internal/storage/storage.go (relational table, file log, in-memory map),*)
(* the create path of pkg/handlers/uriPost.go, and the fan-out/fan-in      *)
(* batch pipelines of pkg/handlers/batchPost.go and the delete handler.    *)
(***************************************************************************)
EXTENDS Integers, Sequences, FiniteSets, TLC

-----------------------------------------------------------------------------
(* Bounds of the model *)

NumThreads == 2
NumURLs == 2
NumCodes == 2
NumUsers == 2
MaxLog == 2
MaxItems == 2
MaxRequests == 3

-----------------------------------------------------------------------------
(* Value universes *)

URLNames == <<"u1", "u2", "u3", "u4">>
CodeNames == <<"c1", "c2", "c3", "c4">>
UserNames == <<"alice", "bob", "carol", "dave">>
CorrNames == <<"k1", "k2", "k3", "k4">>

Threads == 1..NumThreads
URLs == {URLNames[i] : i \in 1..NumURLs}
Codes == {CodeNames[i] : i \in 1..NumCodes}
Users == {UserNames[i] : i \in 1..NumUsers}

\* the three backing strategies InitializeStorage / SaveURL branch on
Strategies == {"db", "file", "memory"}

\* config.FlagBaseURL, the prefix of every rendered short link
FlagBaseURL == "http://localhost:8080"

\* fmt.Sprintf("%s/%s", config.FlagBaseURL, code)
Link(code) == <<FlagBaseURL, "/", code>>

\* errors of the storage and handler packages
ErrAlreadyExists == "ErrAlreadyExists"
ErrStorage == "ErrStorage"
TimeOutErr == "TimeOutErr"
ErrEmptyURL == "empty URL"
NoErr == "nil"

VARIABLES
    strategy,           \* which of DB / config.FileStoragePath is set
    short_urls,         \* rows of table short_urls (db strategy)
    URLStore,           \* package map short code -> original URL
    ExistingShortURL,   \* package-level string written by SaveURL's Scan
    fileLog,            \* events appended to config.FileStoragePath
    crashed,            \* an unrecovered panic ended the process
    req,                \* per request goroutine: the frame of its running call
    prior,              \* per request goroutine: codes already handed out as new
                        \* for its URL when the request arrived
    ctxDone,            \* request goroutines whose 10 s context is done
    rnd,                \* the last generateShortID call: its bytes b and its result
    mn,                 \* the process: where main stands, the sigint channel, the
                        \* signals delivered, the HTTP server and idleConnsClosed
    lk,                 \* the mutexes and, per goroutine, its position in a call
                        \* that works on a mutex-guarded map
    served,             \* number of requests accepted so far
    out,                \* the answer of the last read request (HandleGet, GetURL,
                        \* HandleGetUserURLs, GetUserURLs)
    uni,                \* three stores side by side, one per strategy, given the
                        \* same calls one after the other, and their last results
    batch,              \* the running batch: its kind, input items and user
    doneCh,             \* doneCh of the batch is closed
    gen,                \* the generator goroutine: position and next index
    inputCh,            \* inputCh is closed
    wk,                 \* per worker goroutine (postURL / deleteURL): its frame
    resultCh,           \* per worker: its resultCh is closed
    fan,                \* per worker: the fan-in goroutine forwarding its results
    wg,                 \* the WaitGroup counter of fanIn
    finalCh,            \* finalCh is closed
    res,                \* results the batch function has received so far
    reply               \* what the last batch handler answered: handler, number
                        \* of items of its request, status written

storeVars == <<strategy, short_urls, URLStore, ExistingShortURL, fileLog, crashed>>

-----------------------------------------------------------------------------
(* The store *)

\* models.URLData as built by SaveShortURL / generatorBatchPost
URLData(short, orig, user, corr) ==
    [ShortURL |-> short, OriginalURL |-> orig, UserUUID |-> user,
     DeletedFlag |-> FALSE, CorrelationID |-> corr]

\* a row of short_urls
Row(ev) ==
    [short_url |-> ev.ShortURL, original_url |-> ev.OriginalURL,
     user_id |-> ev.UserUUID, is_deleted |-> ev.DeletedFlag]

\* SELECT short_url FROM short_urls WHERE original_url=$1
SelectByOriginal(orig) == {r.short_url : r \in {x \in short_urls : x.original_url = orig}}

\* URLStore[k] = v
MapPut(m, k, v) == [c \in DOMAIN m \cup {k} |-> IF c = k THEN v ELSE m[c]]

\* the frame of one SaveURL invocation: where it stands, the event it was
\* handed (by pointer), and the (string, error) pair it returns
IdleCall == [op |-> "none", pc |-> "idle", event |-> URLData("", "", "", ""), ret |-> "", err |-> NoErr]

NewCall(ev) == [op |-> "save", pc |-> "call", event |-> ev, ret |-> "", err |-> NoErr]

\* the frame of a deleteURL worker that took urlID from its input channel
NewDelete(urlID, userID) ==
    [op |-> "delete", pc |-> "delete", event |-> URLData(urlID, "", userID, ""), ret |-> "", err |-> NoErr]

Return(f, code, e) == [f EXCEPT !.pc = "ret", !.ret = code, !.err = e]

\* the frames a step of a storage call can leave its caller in; each step
\* below relates the frame f before it to the frame g after it
Frames(f) ==
    {[f EXCEPT !.pc = p] : p \in {"test", "dup", "insert", "write", "delete"}}
      \cup {Return(f, "", e) : e \in {NoErr, ErrStorage}}
      \cup {Return([f EXCEPT !.event.ShortURL = ExistingShortURL], ExistingShortURL, ErrAlreadyExists)}

\* db branch, the SELECT ... Scan(&ExistingShortURL): a found row is scanned
\* into the package variable; sql.ErrNoRows (which is not pgx.ErrNoRows) and
\* any other query error fall through the empty if-branch and leave the
\* variable as the previous call left it
SaveURLSelect(f, g) ==
    /\ f.pc = "call"
    /\ strategy = "db"
    /\ \E failed \in BOOLEAN :
         LET found == SelectByOriginal(f.event.OriginalURL) IN
         /\ IF ~failed /\ found # {}
               THEN ExistingShortURL' = CHOOSE c \in found : TRUE
               ELSE ExistingShortURL' = ExistingShortURL
         /\ g = [f EXCEPT !.pc = "test"]
    /\ UNCHANGED <<strategy, short_urls, URLStore, fileLog, crashed>>

\* db branch, `if ExistingShortURL != ""`
SaveURLTest(f, g) ==
    /\ f.pc = "test"
    /\ g = [f EXCEPT !.pc = IF ExistingShortURL # "" THEN "dup" ELSE "insert"]
    /\ UNCHANGED storeVars

\* the duplicate branch rewriting the found row for the caller: the caller
\* becomes its owner and the row is live again
MutSaveURLExistingTakesOver(f, g) ==
    /\ f.pc = "dup"
    /\ g = Return([f EXCEPT !.event.ShortURL = ExistingShortURL], ExistingShortURL, ErrAlreadyExists)
    /\ short_urls' = {IF r.short_url = ExistingShortURL
                        THEN [r EXCEPT !.user_id = f.event.UserUUID, !.is_deleted = FALSE]
                        ELSE r : r \in short_urls}
    /\ UNCHANGED <<strategy, URLStore, ExistingShortURL, fileLog, crashed>>

\* db branch, event.ShortURL = ExistingShortURL; return ExistingShortURL, ErrAlreadyExists
SaveURLExisting(f, g) ==
    /\ f.pc = "dup"
    /\ g = Return([f EXCEPT !.event.ShortURL = ExistingShortURL], ExistingShortURL, ErrAlreadyExists)
    /\ UNCHANGED storeVars

\* INSERT ... ON CONFLICT (original_url) DO UPDATE SET short_url = short_urls.short_url
\* on a table with UNIQUE short_url and UNIQUE original_url: a row with the same
\* original_url turns the insert into an update that changes nothing; otherwise
\* a row with the same short_url is a unique violation
InsertOnConflict(ev) ==
    IF \E r \in short_urls : r.original_url = ev.OriginalURL
      THEN [rows |-> short_urls, err |-> NoErr]
      ELSE IF \E r \in short_urls : r.short_url = ev.ShortURL
             THEN [rows |-> short_urls, err |-> ErrStorage]
             ELSE [rows |-> short_urls \cup {Row(ev)}, err |-> NoErr]

\* db branch, DB.Exec of the insert; `return "", err` or `return "", nil`
SaveURLInsert(f, g) ==
    /\ f.pc = "insert"
    /\ \E failed \in BOOLEAN :
         LET ins == InsertOnConflict(f.event) IN
         IF failed
           THEN /\ short_urls' = short_urls
                /\ g = Return(f, "", ErrStorage)
           ELSE /\ short_urls' = ins.rows
                /\ g = Return(f, "", ins.err)
    /\ UNCHANGED <<strategy, URLStore, ExistingShortURL, fileLog, crashed>>

\* file branch, file.NewProducer then the locked map write
SaveURLFileMap(f, g) ==
    /\ f.pc = "call"
    /\ strategy = "file"
    /\ \E failed \in BOOLEAN :
         IF failed
           THEN /\ URLStore' = URLStore
                /\ g = Return(f, "", ErrStorage)
           ELSE /\ URLStore' = MapPut(URLStore, f.event.ShortURL, f.event.OriginalURL)
                /\ g = [f EXCEPT !.pc = "write"]
    /\ UNCHANGED <<strategy, short_urls, ExistingShortURL, fileLog, crashed>>

\* file branch, `return "", producer.WriteEvent(event)`; the medium holds
\* MaxLog events and an append beyond it fails
SaveURLFileWrite(f, g) ==
    /\ f.pc = "write"
    /\ \E failed \in BOOLEAN :
         IF failed \/ Len(fileLog) >= MaxLog
           THEN /\ fileLog' = fileLog
                /\ g = Return(f, "", ErrStorage)
           ELSE /\ fileLog' = Append(fileLog, f.event)
                /\ g = Return(f, "", NoErr)
    /\ UNCHANGED <<strategy, short_urls, URLStore, ExistingShortURL, crashed>>

\* memory branch: Mu.Lock(); URLStore[event.ShortURL] = event.OriginalURL; Mu.Unlock()
SaveURLMemory(f, g) ==
    /\ f.pc = "call"
    /\ strategy = "memory"
    /\ URLStore' = MapPut(URLStore, f.event.ShortURL, f.event.OriginalURL)
    /\ g = Return(f, "", NoErr)
    /\ UNCHANGED <<strategy, short_urls, ExistingShortURL, fileLog, crashed>>

\* one step of a running SaveURL call
SaveURL(f, g) ==
    \/ SaveURLSelect(f, g)
    \/ SaveURLTest(f, g)
    \/ SaveURLExisting(f, g)
    \/ SaveURLInsert(f, g)
    \/ SaveURLFileMap(f, g)
    \/ SaveURLFileWrite(f, g)
    \/ SaveURLMemory(f, g)

\* GetOriginalURL(shortID) -> (originalURL, deleted, found); `failed` is a
\* query error of the db branch
GetOriginalURL(shortID, failed) ==
    IF strategy = "db"
      THEN LET hit == {r \in short_urls : r.short_url = shortID} IN
           IF failed \/ hit = {}
             THEN <<"", FALSE, FALSE>>
             ELSE LET r == CHOOSE x \in hit : TRUE IN <<r.original_url, r.is_deleted, TRUE>>
      ELSE IF shortID \in DOMAIN URLStore
             THEN <<URLStore[shortID], FALSE, TRUE>>
             ELSE <<"", FALSE, FALSE>>

\* GetURLsByUser(userID) -> (urls, err): SELECT short_url, original_url ...
\* WHERE user_id = $1 (no ORDER BY: the rows as a set), each short_url
\* rendered as a link; without a database `return nil, nil`
GetURLsByUser(userID, failed) ==
    IF strategy = "db"
      THEN IF failed
             THEN [urls |-> {}, err |-> ErrStorage]
             ELSE [urls |-> {[ShortURL |-> Link(r.short_url), OriginalURL |-> r.original_url]
                               : r \in {x \in short_urls : x.user_id = userID}},
                   err |-> NoErr]
      ELSE [urls |-> {}, err |-> NoErr]

\* UpdateDeleteFlag without `AND user_id = $2`
MutUpdateDeleteFlagAnyUser(urlID, userID) ==
    {IF r.short_url = urlID THEN [r EXCEPT !.is_deleted = TRUE] ELSE r : r \in short_urls}

\* UpdateDeleteFlag as a toggle: SET is_deleted = NOT is_deleted
MutUpdateDeleteFlagToggle(urlID, userID) ==
    {IF r.short_url = urlID /\ r.user_id = userID THEN [r EXCEPT !.is_deleted = ~r.is_deleted] ELSE r
       : r \in short_urls}

\* UPDATE short_urls SET is_deleted = TRUE WHERE short_url = $1 AND user_id = $2
UpdateDeleteFlag(urlID, userID) ==
    {IF r.short_url = urlID /\ r.user_id = userID THEN [r EXCEPT !.is_deleted = TRUE] ELSE r
       : r \in short_urls}

\* BatchUpdateDeleteFlag(urlID, userID): DB.Exec on the package handle, which
\* is nil under the file and memory strategies (nil pointer dereference)
BatchUpdateDeleteFlag(urlID, userID, failed) ==
    /\ IF strategy # "db"
         THEN crashed' = TRUE /\ short_urls' = short_urls
         ELSE /\ crashed' = crashed
              /\ short_urls' = IF failed THEN short_urls ELSE UpdateDeleteFlag(urlID, userID)
    /\ UNCHANGED <<strategy, URLStore, ExistingShortURL, fileLog>>

\* the body of deleteURL's loop up to its send: err := storage.BatchUpdateDeleteFlag(id, userID);
\* after a panic the goroutine never returns
DeleteURLCall(f, g) ==
    /\ f.pc = "delete"
    /\ \E failed \in BOOLEAN :
         /\ BatchUpdateDeleteFlag(f.event.ShortURL, f.event.UserUUID, failed)
         /\ IF strategy # "db"
              THEN g = f
              ELSE g = Return(f, "", IF failed THEN ErrStorage ELSE NoErr)

-----------------------------------------------------------------------------
(* Request goroutines: HandlePost / SaveShortURL, and calls of deleteURL *)

reqVars == <<req, prior, ctxDone, rnd, lk, mn, served, out, uni>>

pipeVars == <<batch, doneCh, gen, inputCh, wk, resultCh, fan, wg, finalCh, res, reply>>

vars == <<strategy, short_urls, URLStore, ExistingShortURL, fileLog, crashed, req, prior, ctxDone, rnd, lk, mn, served, out, uni,
          batch, doneCh, gen, inputCh, wk, resultCh, fan, wg, finalCh, res, reply>>

\* generateShortID(): 6 random bytes, base64.RawURLEncoding; any code can come out
generateShortID == Codes

\* the short links other callers currently hold as newly created for url
HeldAsNew(url) ==
    {req[t].event.ShortURL : t \in {x \in Threads : /\ req[x].op = "save"
                                                     /\ req[x].pc = "ret"
                                                     /\ req[x].err = NoErr
                                                     /\ req[x].event.OriginalURL = url}}

\* HandlePost up to the call of storage.SaveURL inside SaveShortURL:
\* ctx.Done() -> TimeOutErr, empty URL -> error, otherwise the event is built
HandlePost(t) ==
    /\ ~crashed
    /\ req[t].pc \in {"idle", "ret"}
    /\ served < MaxRequests
    /\ served' = served + 1
    /\ \E originalURL \in URLs \cup {""}, userID \in Users, shortID \in generateShortID,
          expired \in BOOLEAN :
         LET event == URLData(shortID, originalURL, userID, "") IN
         /\ req' = [req EXCEPT ![t] =
                IF expired THEN Return(NewCall(URLData("", "", "", "")), "", TimeOutErr)
                ELSE IF originalURL = "" THEN Return(NewCall(URLData("", "", "", "")), "", ErrEmptyURL)
                ELSE NewCall(event)]
         /\ prior' = [prior EXCEPT ![t] = HeldAsNew(originalURL)]
         /\ ctxDone' = IF expired THEN ctxDone \cup {t} ELSE ctxDone \ {t}
    /\ UNCHANGED <<mn, lk, rnd, out, uni>>
    /\ UNCHANGED storeVars
    /\ UNCHANGED pipeVars

\* the storage.SaveURL call of SaveShortURL, step by step
SaveShortURL(t) ==
    /\ ~crashed
    /\ req[t].op = "save"
    /\ \E g \in Frames(req[t]) : SaveURL(req[t], g) /\ req' = [req EXCEPT ![t] = g]
    /\ UNCHANGED <<mn, lk, prior, ctxDone, rnd, served, out, uni>>
    /\ UNCHANGED pipeVars

\* a deleteURL worker of some delete batch takes id from its input channel
DeleteURLRecv(t) ==
    /\ ~crashed
    /\ req[t].pc \in {"idle", "ret"}
    /\ served < MaxRequests
    /\ served' = served + 1
    /\ \E id \in Codes, userID \in Users :
         req' = [req EXCEPT ![t] = NewDelete(id, userID)]
    /\ prior' = [prior EXCEPT ![t] = {}]
    /\ ctxDone' = ctxDone \ {t}
    /\ UNCHANGED <<mn, lk, rnd, out, uni>>
    /\ UNCHANGED storeVars
    /\ UNCHANGED pipeVars

\* ... and calls storage.BatchUpdateDeleteFlag(id, userID)
DeleteURL(t) ==
    /\ ~crashed
    /\ req[t].op = "delete"
    /\ \E g \in Frames(req[t]) : DeleteURLCall(req[t], g) /\ req' = [req EXCEPT ![t] = g]
    /\ UNCHANGED <<mn, lk, prior, ctxDone, rnd, served, out, uni>>
    /\ UNCHANGED pipeVars

\* what SaveShortURL returns from a finished frame: (shortURL, err)
SaveShortURLResult(f) ==
    IF f.err = NoErr THEN <<Link(f.event.ShortURL), NoErr>>
    ELSE IF f.err = ErrAlreadyExists THEN <<Link(f.ret), ErrAlreadyExists>>
    ELSE <<<<>>, f.err>>

\* fmt.Sprintf("%s/%s", config.FlagBaseURL, s) for a string s that is already
\* a sequence of pieces
Sprintf(s) == <<FlagBaseURL, "/">> \o s

\* the link HandleJSONPost answers with: the one rendered before the store
\* call, or on ErrAlreadyExists the rendering of existURL
HandleJSONPostLink(f) ==
    IF f.err = NoErr THEN Sprintf(<<f.event.ShortURL>>)
    ELSE IF f.err = ErrAlreadyExists THEN Sprintf(<<f.ret>>)
    ELSE <<>>

\* ShortUrl of gRPC CreateShortURL: what SaveShortURL returned
CreateShortURLLink(f) ==
    LET r == SaveShortURLResult(f) IN
    IF r[2] \in {NoErr, ErrAlreadyExists} THEN r[1] ELSE <<>>

\* ShortUrl of gRPC CreateJSONShortURL: what SaveShortURL returned, and on
\* ErrAlreadyExists that link passed through Sprintf once more
CreateJSONShortURLLink(f) ==
    LET r == SaveShortURLResult(f) IN
    IF r[2] = NoErr THEN r[1]
    ELSE IF r[2] = ErrAlreadyExists THEN Sprintf(r[1])
    ELSE <<>>

-----------------------------------------------------------------------------
(* Read requests *)

NoRead == [handler |-> "none", seq |-> 0, arg |-> "", failed |-> FALSE, status |-> 0,
           url |-> "", urls |-> {}, panic |-> FALSE]

\* the query errors a read can meet: only the db branch talks to a medium
QueryFailures == IF strategy = "db" THEN BOOLEAN ELSE {FALSE}

\* a read request is answered: it is the (served + 1)-th request
Answer(handler, arg, failed, status, url, urls) ==
    /\ ~crashed
    /\ served < MaxRequests
    /\ served' = served + 1
    /\ out' = [handler |-> handler, seq |-> served + 1, arg |-> arg, failed |-> failed,
               status |-> status, url |-> url, urls |-> urls, panic |-> FALSE]
    /\ UNCHANGED <<mn, lk, req, prior, ctxDone, rnd, uni>>
    /\ UNCHANGED storeVars
    /\ UNCHANGED pipeVars

\* HandleGet: !ok -> 404, deleted -> 410, otherwise 307 with the Location
HandleGet ==
    \E id \in Codes, failed \in QueryFailures :
        LET r == GetOriginalURL(id, failed) IN
        Answer("HandleGet", id, failed,
               IF ~r[3] THEN 404 ELSE IF r[2] THEN 410 ELSE 307,
               IF r[3] /\ ~r[2] THEN r[1] ELSE "", {})

\* gRPC GetURL: !ok -> status http.StatusNotFound "URL not found", deleted ->
\* status http.StatusNotFound "URL deleted", otherwise the URL and a nil error
GetURL ==
    \E id \in Codes, failed \in QueryFailures :
        LET r == GetOriginalURL(id, failed) IN
        Answer("GetURL", id, failed,
               IF ~r[3] THEN 404 ELSE IF r[2] THEN 404 ELSE 0,
               IF r[3] /\ ~r[2] THEN r[1] ELSE "", {})

\* HandleGetUserURLs: err -> 500, no URLs -> 204, otherwise 200 with the list
HandleGetUserURLs ==
    \E userID \in Users, failed \in QueryFailures :
        LET r == GetURLsByUser(userID, failed) IN
        Answer("HandleGetUserURLs", userID, failed,
               IF r.err # NoErr THEN 500 ELSE IF r.urls = {} THEN 204 ELSE 200,
               "", r.urls)

\* gRPC GetUserURLs: err -> status 500, no URLs -> status http.StatusNotFound
\* "No content", otherwise the list and a nil error
GetUserURLs ==
    \E userID \in Users, failed \in QueryFailures :
        LET r == GetURLsByUser(userID, failed) IN
        Answer("GetUserURLs", userID, failed,
               IF r.err # NoErr THEN 500 ELSE IF r.urls = {} THEN 404 ELSE 0,
               "", r.urls)

\* storage.DB.Ping() on the package handle: under the db strategy nil or the
\* connection error, under the file and memory strategies the handle is nil
\* and the method call dereferences it
Ping(failed) ==
    IF strategy = "db" THEN (IF failed THEN ErrStorage ELSE NoErr) ELSE "panic"

\* HandlePing: err -> 500, otherwise 200 "pong"; a panic ends the request's
\* goroutine with no response written (net/http recovers it per connection)
HandlePing ==
    /\ ~crashed
    /\ served < MaxRequests
    /\ served' = served + 1
    /\ \E failed \in QueryFailures :
         LET err == Ping(failed) IN
         out' = [NoRead EXCEPT !.handler = "HandlePing", !.seq = served + 1, !.failed = failed,
                               !.status = IF err = NoErr THEN 200 ELSE IF err = "panic" THEN 0 ELSE 500,
                               !.url = IF err = NoErr THEN "pong" ELSE "",
                               !.panic = (err = "panic")]
    /\ UNCHANGED <<mn, lk, req, prior, ctxDone, rnd, uni>>
    /\ UNCHANGED storeVars
    /\ UNCHANGED pipeVars

\* gRPC PingServer: err -> status 500, otherwise "pong" and a nil error; a
\* panic in the handler's goroutine is not recovered and ends the process
PingServer ==
    /\ ~crashed
    /\ served < MaxRequests
    /\ served' = served + 1
    /\ \E failed \in QueryFailures :
         LET err == Ping(failed) IN
         /\ out' = [NoRead EXCEPT !.handler = "PingServer", !.seq = served + 1, !.failed = failed,
                                  !.status = IF err = NoErr THEN 0 ELSE IF err = "panic" THEN 0 ELSE 500,
                                  !.url = IF err = NoErr THEN "pong" ELSE "",
                                  !.panic = (err = "panic")]
         /\ crashed' = (err = "panic")
    /\ UNCHANGED <<mn, lk, req, prior, ctxDone, rnd, uni>>
    /\ UNCHANGED <<strategy, short_urls, URLStore, ExistingShortURL, fileLog>>
    /\ UNCHANGED pipeVars

-----------------------------------------------------------------------------
(* The batch pipelines: processBatchPost and processDeleteBatch *)

\* numWorkers of fanOutBatchPost / fanOutDeleteBatch
numWorkers == 5

\* a pool with one worker goroutine more than numWorkers
MutWorkersOneMore == 1..(numWorkers + 1)

\* the worker goroutines fanOutBatchPost / fanOutDeleteBatch start
Workers == 1..numWorkers

NoBatch == [kind |-> "none", items |-> <<>>, user |-> ""]

\* index sequences of length 1..MaxItems over 1..k in which a value appears
\* only after all smaller ones: every sequence of names, up to renaming
Patterns(k) ==
    {f \in UNION {[1..n -> 1..k] : n \in 1..MaxItems} :
        \A i \in DOMAIN f : \A v \in 1..(f[i] - 1) : \E j \in 1..(i - 1) : f[j] = v}

\* the request bodies of HandleBatchPost: 1..MaxItems items, the i-th with
\* correlation id CorrNames[i]; the store is empty when the batch starts, so
\* the URLs are enumerated up to renaming
BatchRequests ==
    {[i \in DOMAIN f |-> URLNames[f[i]]] : f \in Patterns(NumURLs)}

\* the request bodies of HandleDeleteURLs: 1..MaxItems short codes
DeleteRequests ==
    {[i \in DOMAIN f |-> CodeNames[f[i]]] : f \in Patterns(NumCodes)}

\* processBatchPost / processDeleteBatch up to their range loop: doneCh is made,
\* the generator, the workers, the fan-in goroutines (wg.Add(1) each) and the
\* closer are started
StartPipeline(kind, items, user) ==
    /\ batch' = [kind |-> kind, items |-> items, user |-> user]
    /\ doneCh' = FALSE
    /\ gen' = [pc |-> "run", i |-> 1]
    /\ inputCh' = FALSE
    /\ wk' = [w \in Workers |-> [IdleCall EXCEPT !.pc = "recv"]]
    /\ resultCh' = [w \in Workers |-> FALSE]
    /\ fan' = [w \in Workers |-> [pc |-> "recv", res |-> <<>>]]
    /\ wg' = numWorkers
    /\ finalCh' = FALSE
    /\ res' = <<>>

\* the pipeline is left as it is: no goroutine is started
NoPipeline == UNCHANGED <<batch, doneCh, gen, inputCh, wk, resultCh, fan, wg, finalCh, res>>

NoReply == [handler |-> "none", n |-> 0, status |-> ""]

\* the emptiness test without effect: no request counts as empty
MutEmptyBatchNever(items) == FALSE

\* `if len(req) == 0` / `if len(ids) == 0` / `if len(req.Ids) == 0`
EmptyBatch(items) == Len(items) = 0

\* HandleBatchPost: an empty body is answered 400 "Batch cannot be empty";
\* otherwise processBatchPost(req, userID, &res)
HandleBatchPost ==
    /\ ~crashed
    /\ batch.kind = "none"
    /\ \E body \in BatchRequests \cup {<<>>}, userID \in {UserNames[1]} :
         IF EmptyBatch(body)
           THEN /\ reply' = [handler |-> "HandleBatchPost", n |-> Len(body), status |-> "StatusBadRequest"]
                /\ NoPipeline
           ELSE /\ reply' = [handler |-> "HandleBatchPost", n |-> Len(body), status |-> ""]
                /\ StartPipeline("post", [i \in DOMAIN body |->
                                   [CorrelationID |-> CorrNames[i], OriginalURL |-> body[i]]], userID)
    /\ UNCHANGED storeVars
    /\ UNCHANGED reqVars

\* HandleDeleteURLs: an empty body is answered 400; otherwise
\* w.WriteHeader(http.StatusAccepted); go processDeleteBatch(ids, userID)
HandleDeleteURLs ==
    /\ ~crashed
    /\ batch.kind = "none"
    /\ \E ids \in DeleteRequests \cup {<<>>}, userID \in {UserNames[1]} :
         IF EmptyBatch(ids)
           THEN /\ reply' = [handler |-> "HandleDeleteURLs", n |-> Len(ids), status |-> "StatusBadRequest"]
                /\ NoPipeline
           ELSE /\ reply' = [handler |-> "HandleDeleteURLs", n |-> Len(ids), status |-> "StatusAccepted"]
                /\ StartPipeline("delete", ids, userID)
    /\ UNCHANGED storeVars
    /\ UNCHANGED reqVars

\* gRPC BatchDelete: empty req.Ids is answered codes.InvalidArgument; otherwise
\* go processDeleteBatch(req.Ids, userID) and the reply "Batch deletion started"
BatchDelete ==
    /\ ~crashed
    /\ batch.kind = "none"
    /\ \E ids \in DeleteRequests \cup {<<>>}, userID \in {UserNames[1]} :
         IF EmptyBatch(ids)
           THEN /\ reply' = [handler |-> "BatchDelete", n |-> Len(ids), status |-> "InvalidArgument"]
                /\ NoPipeline
           ELSE /\ reply' = [handler |-> "BatchDelete", n |-> Len(ids), status |-> "OK"]
                /\ StartPipeline("delete", ids, userID)
    /\ UNCHANGED storeVars
    /\ UNCHANGED reqVars

\* ItemFrame with the loop variable captured: every frame is built from the
\* last input item
MutItemFrameLast(i, shortID) ==
    LET n == Len(batch.items) IN
    IF batch.kind = "post"
      THEN NewCall(URLData(shortID, batch.items[n].OriginalURL, batch.user,
                           batch.items[n].CorrelationID))
      ELSE NewDelete(batch.items[n], batch.user)

\* the frame a worker starts for the i-th input: generatorBatchPost builds the
\* event with a generated short id, generatorDeleteBatch hands the id on
ItemFrame(i, shortID) ==
    IF batch.kind = "post"
      THEN NewCall(URLData(shortID, batch.items[i].OriginalURL, batch.user,
                           batch.items[i].CorrelationID))
      ELSE NewDelete(batch.items[i], batch.user)

\* generator: select { case <-doneCh: return; case inputCh <- ev: } with a
\* worker blocked in `range inputCh` taking the value
Generator ==
    /\ ~crashed
    /\ gen.pc = "run"
    /\ gen.i <= Len(batch.items)
    /\ \E branch \in {"done", "send"}, w \in Workers, shortID \in generateShortID :
         IF branch = "done"
           THEN /\ doneCh
                /\ gen' = [gen EXCEPT !.pc = "done"]
                /\ inputCh' = TRUE
                /\ wk' = wk
           ELSE /\ wk[w].pc = "recv"
                /\ wk' = [wk EXCEPT ![w] = ItemFrame(gen.i, shortID)]
                /\ gen' = [gen EXCEPT !.i = gen.i + 1]
                /\ inputCh' = inputCh
    /\ UNCHANGED <<batch, doneCh, resultCh, fan, wg, finalCh, res, reply>>
    /\ UNCHANGED storeVars
    /\ UNCHANGED reqVars

\* generator: the loop is over, defer close(inputCh)
GeneratorClose ==
    /\ ~crashed
    /\ gen.pc = "run"
    /\ gen.i > Len(batch.items)
    /\ gen' = [gen EXCEPT !.pc = "done"]
    /\ inputCh' = TRUE
    /\ UNCHANGED <<batch, doneCh, wk, resultCh, fan, wg, finalCh, res, reply>>
    /\ UNCHANGED storeVars
    /\ UNCHANGED reqVars

\* worker: the per-item store call, storage.SaveURL(&event) step by step or
\* storage.BatchUpdateDeleteFlag(id, userID)
Worker(w) ==
    /\ ~crashed
    /\ IF wk[w].op = "delete"
         THEN \E g \in Frames(wk[w]) : DeleteURLCall(wk[w], g) /\ wk' = [wk EXCEPT ![w] = g]
         ELSE /\ wk[w].op = "save"
              /\ \E g \in Frames(wk[w]) : SaveURL(wk[w], g) /\ wk' = [wk EXCEPT ![w] = g]
    /\ UNCHANGED <<batch, doneCh, gen, inputCh, resultCh, fan, wg, finalCh, res, reply>>
    /\ UNCHANGED reqVars

\* WorkerResult without the error test: the generated link is always sent
MutWorkerResultAlwaysLink(f) ==
    IF f.op = "delete" THEN <<f.err>>
    ELSE [CorrelationID |-> f.event.CorrelationID, ShortURL |-> Link(f.event.ShortURL)]

\* what a worker sends for a finished frame: postURL's BatchResponse, or
\* deleteURL's error
WorkerResult(f) ==
    IF f.op = "delete" THEN <<f.err>>
    ELSE [CorrelationID |-> f.event.CorrelationID,
          ShortURL |-> IF f.err = NoErr THEN Link(f.event.ShortURL)
                       ELSE IF f.err = ErrAlreadyExists THEN Link(f.ret)
                       ELSE <<>>]

\* worker: select { case <-doneCh: return; case resultCh <- result: } with its
\* fan-in goroutine blocked in `range chClosure` taking the value
WorkerSend(w) ==
    /\ ~crashed
    /\ wk[w].pc = "ret"
    /\ \E branch \in {"done", "send"} :
         IF branch = "done"
           THEN /\ doneCh
                /\ wk' = [wk EXCEPT ![w] = [IdleCall EXCEPT !.pc = "done"]]
                /\ resultCh' = [resultCh EXCEPT ![w] = TRUE]
                /\ fan' = fan
           ELSE /\ fan[w].pc = "recv"
                /\ fan' = [fan EXCEPT ![w] = [pc |-> "send", res |-> WorkerResult(wk[w])]]
                /\ wk' = [wk EXCEPT ![w] = [IdleCall EXCEPT !.pc = "recv"]]
                /\ resultCh' = resultCh
    /\ UNCHANGED <<batch, doneCh, gen, inputCh, wg, finalCh, res, reply>>
    /\ UNCHANGED storeVars
    /\ UNCHANGED reqVars

\* worker: inputCh is closed, the range loop ends, defer close(resultCh)
WorkerClose(w) ==
    /\ ~crashed
    /\ wk[w].pc = "recv"
    /\ inputCh
    /\ wk' = [wk EXCEPT ![w] = [IdleCall EXCEPT !.pc = "done"]]
    /\ resultCh' = [resultCh EXCEPT ![w] = TRUE]
    /\ UNCHANGED <<batch, doneCh, gen, inputCh, fan, wg, finalCh, res, reply>>
    /\ UNCHANGED storeVars
    /\ UNCHANGED reqVars

\* fan-in goroutine: select { case <-doneCh: return; case finalCh <- res: }
\* with the batch function's range loop taking the value: processBatchPost
\* appends it to *res, processDeleteBatch logs a non-nil error and keeps nothing
FanIn(w) ==
    /\ ~crashed
    /\ fan[w].pc = "send"
    /\ \E branch \in {"done", "send"} :
         IF branch = "done"
           THEN /\ doneCh
                /\ fan' = [fan EXCEPT ![w] = [pc |-> "done", res |-> <<>>]]
                /\ wg' = wg - 1
                /\ res' = res
           ELSE /\ batch.kind # "none"
                /\ ~doneCh
                /\ fan' = [fan EXCEPT ![w] = [pc |-> "recv", res |-> <<>>]]
                /\ wg' = wg
                /\ res' = IF batch.kind = "post" THEN Append(res, fan[w].res) ELSE res
    /\ UNCHANGED <<batch, doneCh, gen, inputCh, wk, resultCh, finalCh, reply>>
    /\ UNCHANGED storeVars
    /\ UNCHANGED reqVars

\* fan-in goroutine: its worker's channel is closed, the range loop ends, wg.Done()
FanInDone(w) ==
    /\ ~crashed
    /\ fan[w].pc = "recv"
    /\ resultCh[w]
    /\ fan' = [fan EXCEPT ![w] = [pc |-> "done", res |-> <<>>]]
    /\ wg' = wg - 1
    /\ UNCHANGED <<batch, doneCh, gen, inputCh, wk, resultCh, finalCh, res, reply>>
    /\ UNCHANGED storeVars
    /\ UNCHANGED reqVars

\* the closer without wg.Wait(): finalCh is closed while fan-in goroutines run
MutFanInCloseNoWait ==
    /\ ~crashed
    /\ batch.kind # "none"
    /\ ~finalCh
    /\ finalCh' = TRUE
    /\ UNCHANGED <<batch, doneCh, gen, inputCh, wk, resultCh, fan, wg, res, reply>>
    /\ UNCHANGED storeVars
    /\ UNCHANGED reqVars

\* closer goroutine: wg.Wait(); close(finalCh)
FanInClose ==
    /\ ~crashed
    /\ batch.kind # "none"
    /\ ~finalCh
    /\ wg = 0
    /\ finalCh' = TRUE
    /\ UNCHANGED <<batch, doneCh, gen, inputCh, wk, resultCh, fan, wg, res, reply>>
    /\ UNCHANGED storeVars
    /\ UNCHANGED reqVars

\* the batch function returning before its range over finalCh has ended: the
\* deferred close(doneCh) runs while goroutines are at work
MutPipelineReturnEarly ==
    /\ ~crashed
    /\ batch.kind # "none"
    /\ ~doneCh
    /\ doneCh' = TRUE
    /\ reply' = IF batch.kind = "post" THEN [reply EXCEPT !.status = "StatusCreated"] ELSE reply
    /\ UNCHANGED <<batch, gen, inputCh, wk, resultCh, fan, wg, finalCh, res>>
    /\ UNCHANGED storeVars
    /\ UNCHANGED reqVars

\* processBatchPost / processDeleteBatch: finalCh is closed, the range loop
\* ends, the function returns and its defer closes doneCh; HandleBatchPost
\* then writes 201 and the results
PipelineReturn ==
    /\ ~crashed
    /\ batch.kind # "none"
    /\ finalCh
    /\ ~doneCh
    /\ doneCh' = TRUE
    /\ reply' = IF batch.kind = "post" THEN [reply EXCEPT !.status = "StatusCreated"] ELSE reply
    /\ UNCHANGED <<batch, gen, inputCh, wk, resultCh, fan, wg, finalCh, res>>
    /\ UNCHANGED storeVars
    /\ UNCHANGED reqVars

-----------------------------------------------------------------------------
(* The three strategies side by side: each store operation as one call on a
   store value st = [short_urls, URLStore, ExistingShortURL, fileLog, crashed],
   run to its end with no other call in between and a healthy medium *)

EmptyStore ==
    [short_urls |-> {}, URLStore |-> [c \in {} |-> ""], ExistingShortURL |-> "",
     fileLog |-> <<>>, crashed |-> FALSE]

\* the result of a call and the store it leaves
Outcome(st, val) == [st |-> st, val |-> val, panic |-> FALSE]

\* storage.SaveURL(&event) in one piece -> (code, err)
SaveURLCall(strat, st, ev) ==
    IF strat = "db"
      THEN LET found == {r \in st.short_urls : r.original_url = ev.OriginalURL}
               existing == IF found # {} THEN (CHOOSE r \in found : TRUE).short_url
                           ELSE st.ExistingShortURL
               scanned == [st EXCEPT !.ExistingShortURL = existing]
           IN IF existing # ""
                THEN Outcome(scanned, <<existing, ErrAlreadyExists>>)
                ELSE IF \E r \in st.short_urls : r.short_url = ev.ShortURL
                       THEN Outcome(scanned, <<"", ErrStorage>>)
                       ELSE Outcome([scanned EXCEPT !.short_urls = @ \cup {Row(ev)}], <<"", NoErr>>)
      ELSE IF strat = "file"
             THEN Outcome([st EXCEPT !.URLStore = MapPut(@, ev.ShortURL, ev.OriginalURL),
                                     !.fileLog = Append(@, ev)], <<"", NoErr>>)
             ELSE Outcome([st EXCEPT !.URLStore = MapPut(@, ev.ShortURL, ev.OriginalURL)],
                          <<"", NoErr>>)

\* storage.GetOriginalURL(shortID) -> (originalURL, deleted, found)
GetOriginalURLCall(strat, st, shortID) ==
    IF strat = "db"
      THEN LET hit == {r \in st.short_urls : r.short_url = shortID} IN
           IF hit = {}
             THEN Outcome(st, <<"", FALSE, FALSE>>)
             ELSE LET r == CHOOSE x \in hit : TRUE
                  IN Outcome(st, <<r.original_url, r.is_deleted, TRUE>>)
      ELSE IF shortID \in DOMAIN st.URLStore
             THEN Outcome(st, <<st.URLStore[shortID], FALSE, TRUE>>)
             ELSE Outcome(st, <<"", FALSE, FALSE>>)

\* storage.GetURLsByUser(userID) -> (urls, err)
GetURLsByUserCall(strat, st, userID) ==
    IF strat = "db"
      THEN Outcome(st, <<{[ShortURL |-> Link(r.short_url), OriginalURL |-> r.original_url]
                            : r \in {x \in st.short_urls : x.user_id = userID}}, NoErr>>)
      ELSE Outcome(st, <<{}, NoErr>>)

\* storage.BatchUpdateDeleteFlag(urlID, userID) -> err; DB.Exec on a nil
\* handle panics
BatchUpdateDeleteFlagCall(strat, st, urlID, userID) ==
    IF strat = "db"
      THEN Outcome([st EXCEPT !.short_urls =
                       {IF r.short_url = urlID /\ r.user_id = userID
                          THEN [r EXCEPT !.is_deleted = TRUE] ELSE r : r \in @}],
                   <<NoErr>>)
      ELSE [st |-> [st EXCEPT !.crashed = TRUE], val |-> <<NoErr>>, panic |-> TRUE]

\* one call on the store of one strategy; a crashed process answers nothing
StoreCall(strat, st, call) ==
    LET r == IF call.op = "SaveURL" THEN SaveURLCall(strat, st, call.event)
             ELSE IF call.op = "GetOriginalURL" THEN GetOriginalURLCall(strat, st, call.shortID)
             ELSE IF call.op = "GetURLsByUser" THEN GetURLsByUserCall(strat, st, call.userID)
             ELSE BatchUpdateDeleteFlagCall(strat, st, call.urlID, call.userID)
    IN IF st.crashed THEN [r EXCEPT !.st = st, !.panic = TRUE] ELSE r

\* the same call made on the store of each strategy: the stores and results after it
Uniform(call) ==
    [n |-> uni.n + 1,
     call |-> call.op,
     st |-> [k \in Strategies |-> StoreCall(k, uni.st[k], call).st],
     val |-> [k \in Strategies |-> StoreCall(k, uni.st[k], call).val],
     panic |-> [k \in Strategies |-> StoreCall(k, uni.st[k], call).panic]]

UniformSaveURL ==
    /\ uni.n < MaxRequests
    /\ \E c \in Codes, u \in URLs, o \in Users :
         uni' = Uniform([op |-> "SaveURL", event |-> URLData(c, u, o, "")])
    /\ UNCHANGED <<mn, lk, storeVars, pipeVars, req, prior, ctxDone, rnd, served, out>>

UniformGetOriginalURL ==
    /\ uni.n < MaxRequests
    /\ \E c \in Codes : uni' = Uniform([op |-> "GetOriginalURL", shortID |-> c])
    /\ UNCHANGED <<mn, lk, storeVars, pipeVars, req, prior, ctxDone, rnd, served, out>>

UniformGetURLsByUser ==
    /\ uni.n < MaxRequests
    /\ \E o \in Users : uni' = Uniform([op |-> "GetURLsByUser", userID |-> o])
    /\ UNCHANGED <<mn, lk, storeVars, pipeVars, req, prior, ctxDone, rnd, served, out>>

UniformBatchUpdateDeleteFlag ==
    /\ uni.n < MaxRequests
    /\ \E c \in Codes, o \in Users :
         uni' = Uniform([op |-> "BatchUpdateDeleteFlag", urlID |-> c, userID |-> o])
    /\ UNCHANGED <<mn, lk, storeVars, pipeVars, req, prior, ctxDone, rnd, served, out>>

\* main after signal.Notify(sigint, ...) and context.WithCancel: the channels
\* are made, no signal has arrived, no http.Server exists yet
MainStarted ==
    [pc |-> "ParseFlags", sigint |-> <<>>, signals |-> <<>>, rpc |-> 0,
     srv |-> "none", idleConnsClosed |-> FALSE]

\* the mutexes: the package Mu and the mu of MemoryStorage and of FileStorage
Mutexes == {"Mu", "ms.mu", "fs.mu"}

\* a goroutine that runs no call on a guarded map
IdleGoroutine == [op |-> "none", prog |-> <<>>, i |-> 0, in |-> FALSE]

\* the writes HandlePost makes to the ResponseWriter for a finished frame;
\* a timeout falls through its own http.Error into the generic one
HandlePostResponse(f) ==
    LET r == SaveShortURLResult(f) IN
    IF r[2] = NoErr THEN <<[status |-> 201, body |-> r[1]]>>
    ELSE IF r[2] = ErrAlreadyExists THEN <<[status |-> 409, body |-> r[1]]>>
    ELSE IF r[2] = TimeOutErr
           THEN <<[status |-> 408, body |-> <<"Request timed out">>],
                  [status |-> 500, body |-> <<"Failed to save URL">>]>>
           ELSE <<[status |-> 500, body |-> <<"Failed to save URL">>]>>

Init ==
    /\ strategy \in Strategies
    /\ short_urls = {}
    /\ URLStore = [c \in {} |-> ""]
    /\ ExistingShortURL = ""
    /\ fileLog = <<>>
    /\ crashed = FALSE
    /\ req = [t \in Threads |-> IdleCall]
    /\ prior = [t \in Threads |-> {}]
    /\ ctxDone = {}
    /\ rnd = [b |-> <<>>, id |-> <<>>]
    /\ lk = [mu |-> [m \in Mutexes |-> 0], g |-> [t \in Threads |-> IdleGoroutine]]
    /\ mn = MainStarted
    /\ served = 0
    /\ out = NoRead
    /\ uni = [n |-> 0, call |-> "none", st |-> [k \in Strategies |-> EmptyStore],
             val |-> [k \in Strategies |-> <<>>], panic |-> [k \in Strategies |-> FALSE]]
    /\ batch = NoBatch
    /\ doneCh = FALSE
    /\ gen = [pc |-> "idle", i |-> 1]
    /\ inputCh = FALSE
    /\ wk = [w \in Workers |-> IdleCall]
    /\ resultCh = [w \in Workers |-> FALSE]
    /\ fan = [w \in Workers |-> [pc |-> "idle", res |-> <<>>]]
    /\ wg = 0
    /\ finalCh = FALSE
    /\ res = <<>>
    /\ reply = NoReply

Next ==
    \E t \in Threads :
        \/ HandlePost(t)
        \/ SaveShortURL(t)
        \/ DeleteURLRecv(t)
        \/ DeleteURL(t)

Spec == Init /\ [][Next]_vars

\* the timer of context.WithTimeout(r.Context(), 10*time.Second) fires while
\* the request is inside storage.SaveURL, which takes no context
DeadlineExceeded(t) ==
    /\ ~crashed
    /\ req[t].op = "save"
    /\ req[t].pc # "ret"
    /\ t \notin ctxDone
    /\ ctxDone' = ctxDone \cup {t}
    /\ UNCHANGED <<mn, lk, req, prior, rnd, served, out, uni>>
    /\ UNCHANGED storeVars
    /\ UNCHANGED pipeVars

\* the byte values rand.Read is let to produce, NumByteSamples of them spread
\* over 0..255 from the top
NumByteSamples == 3

ByteSamples == {(255 - k * 85) % 256 : k \in 0..(NumByteSamples - 1)}

\* b := make([]byte, 6); rand.Read(b)
RandomBytes == [1..6 -> ByteSamples]

\* the alphabet of base64.RawURLEncoding, sextet value v at position v + 1
encodeURL ==
    <<"A", "B", "C", "D", "E", "F", "G", "H", "I", "J", "K", "L", "M", "N", "O", "P",
      "Q", "R", "S", "T", "U", "V", "W", "X", "Y", "Z", "a", "b", "c", "d", "e", "f",
      "g", "h", "i", "j", "k", "l", "m", "n", "o", "p", "q", "r", "s", "t", "u", "v",
      "w", "x", "y", "z", "0", "1", "2", "3", "4", "5", "6", "7", "8", "9", "-", "_">>

\* the alphabet of base64.StdEncoding
encodeStd ==
    <<"A", "B", "C", "D", "E", "F", "G", "H", "I", "J", "K", "L", "M", "N", "O", "P",
      "Q", "R", "S", "T", "U", "V", "W", "X", "Y", "Z", "a", "b", "c", "d", "e", "f",
      "g", "h", "i", "j", "k", "l", "m", "n", "o", "p", "q", "r", "s", "t", "u", "v",
      "w", "x", "y", "z", "0", "1", "2", "3", "4", "5", "6", "7", "8", "9", "+", "/">>

\* the characters of one group of at most three bytes, without padding:
\* 3 bytes -> 4 sextets, 2 bytes -> 3, 1 byte -> 2
EncodeGroup(alphabet, g) ==
    LET b0 == g[1]
        b1 == IF Len(g) >= 2 THEN g[2] ELSE 0
        b2 == IF Len(g) >= 3 THEN g[3] ELSE 0
        sextets == <<b0 \div 4,
                     (b0 % 4) * 16 + (b1 \div 16),
                     (b1 % 16) * 4 + (b2 \div 64),
                     b2 % 64>>
    IN  [i \in 1..(Len(g) + 1) |-> alphabet[sextets[i] + 1]]

RECURSIVE Encode(_, _)
Encode(alphabet, src) ==
    IF src = <<>> THEN <<>>
    ELSE IF Len(src) <= 3 THEN EncodeGroup(alphabet, src)
    ELSE EncodeGroup(alphabet, SubSeq(src, 1, 3)) \o Encode(alphabet, SubSeq(src, 4, Len(src)))

\* EncodeToString with the standard alphabet in place of the URL-safe one
MutEncodeToStringStd(src) == Encode(encodeStd, src)

\* base64.RawURLEncoding.EncodeToString(b)
EncodeToString(src) == Encode(encodeURL, src)

\* one call of generateShortID: 6 random bytes, encoded
GenerateShortIDCall ==
    /\ \E b \in RandomBytes : rnd' = [b |-> b, id |-> EncodeToString(b)]
    /\ UNCHANGED <<mn, lk, req, prior, ctxDone, served, out, uni>>
    /\ UNCHANGED storeVars
    /\ UNCHANGED pipeVars

NextEncode == GenerateShortIDCall

SpecEncode == Init /\ [][NextEncode]_vars

-----------------------------------------------------------------------------
(* The mutex-guarded maps: the package map URLStore under Mu (SaveURL,
   GetOriginalURL) and the maps of MemoryStorage and FileStorage under their
   mu; each call as the sequence of its Lock, map access, append and Unlock *)

\* the calls a request goroutine can make under the running strategy: the db
\* branches of SaveURL and GetOriginalURL touch neither Mu nor URLStore
LockOps ==
    (IF strategy \in {"file", "memory"} THEN {"SaveURL"} ELSE {})
      \cup (IF strategy # "db" THEN {"GetOriginalURL"} ELSE {})
      \cup {"MemoryStorage.Save", "MemoryStorage.Get", "FileStorage.Save", "FileStorage.Get"}

\* SaveURL and GetOriginalURL on the package map, in program order: the file
\* branch of SaveURL appends after Mu.Unlock(), through a producer of its own
ProgramURLStore(op) ==
    IF op = "SaveURL" THEN (IF strategy = "file" THEN <<"Lock", "Write", "Unlock", "Append">>
                            ELSE <<"Lock", "Write", "Unlock">>)
    ELSE <<"Lock", "Read", "Unlock">>

\* MemoryStorage: Save writes under ms.mu, Get reads ms.data without ms.mu
ProgramMemoryStorage(op) ==
    IF op = "MemoryStorage.Save" THEN <<"Lock", "Write", "Unlock">>
    ELSE <<"Read">>

\* FileStorage: Save writes and appends before its deferred Unlock, Get reads
\* under fs.mu
ProgramFileStorage(op) ==
    IF op = "FileStorage.Save" THEN <<"Lock", "Write", "Append", "Unlock">>
    ELSE <<"Lock", "Read", "Unlock">>

\* what a call does, in program order
Program(op) ==
    IF op \in {"SaveURL", "GetOriginalURL"} THEN ProgramURLStore(op)
    ELSE IF op \in {"MemoryStorage.Save", "MemoryStorage.Get"} THEN ProgramMemoryStorage(op)
    ELSE ProgramFileStorage(op)

\* the mutex that belongs to the map a call works on
MutexOf(op) ==
    IF op \in {"SaveURL", "GetOriginalURL", "SaveBatchURL"} THEN "Mu"
    ELSE IF op \in {"MemoryStorage.Save", "MemoryStorage.Get"} THEN "ms.mu"
    ELSE "fs.mu"

\* the instruction goroutine t stands at, "" when it runs no call
Instr(t) ==
    IF lk.g[t].op = "none" THEN "" ELSE lk.g[t].prog[lk.g[t].i]

\* goroutine t has finished its instruction: the next one, or the return
Advance(t) ==
    IF lk.g[t].i = Len(lk.g[t].prog) THEN IdleGoroutine
    ELSE [lk.g[t] EXCEPT !.i = @ + 1, !.in = FALSE]

\* a request goroutine enters one of the calls
LockCall(t) ==
    /\ lk.g[t].op = "none"
    /\ \E op \in LockOps :
         lk' = [lk EXCEPT !.g[t] = [op |-> op, prog |-> Program(op), i |-> 1, in |-> FALSE]]
    /\ UNCHANGED <<mn, req, prior, ctxDone, rnd, served, out, uni>>
    /\ UNCHANGED storeVars
    /\ UNCHANGED pipeVars

\* mu.Lock(): blocks while another goroutine holds the mutex
MutexLock(t) ==
    /\ Instr(t) = "Lock"
    /\ lk.mu[MutexOf(lk.g[t].op)] = 0
    /\ lk' = [lk EXCEPT !.mu[MutexOf(lk.g[t].op)] = t, !.g[t] = Advance(t)]
    /\ UNCHANGED <<mn, req, prior, ctxDone, rnd, served, out, uni>>
    /\ UNCHANGED storeVars
    /\ UNCHANGED pipeVars

\* mu.Unlock(), called directly or deferred
MutexUnlock(t) ==
    /\ Instr(t) = "Unlock"
    /\ lk' = [lk EXCEPT !.mu[MutexOf(lk.g[t].op)] = 0, !.g[t] = Advance(t)]
    /\ UNCHANGED <<mn, req, prior, ctxDone, rnd, served, out, uni>>
    /\ UNCHANGED storeVars
    /\ UNCHANGED pipeVars

\* the goroutine enters its map read, its map write or its WriteEvent
AccessBegin(t) ==
    /\ Instr(t) \in {"Read", "Write", "Append"}
    /\ ~lk.g[t].in
    /\ lk' = [lk EXCEPT !.g[t].in = TRUE]
    /\ UNCHANGED <<mn, req, prior, ctxDone, rnd, served, out, uni>>
    /\ UNCHANGED storeVars
    /\ UNCHANGED pipeVars

\* ... and leaves it
AccessEnd(t) ==
    /\ Instr(t) \in {"Read", "Write", "Append"}
    /\ lk.g[t].in
    /\ lk' = [lk EXCEPT !.g[t] = Advance(t)]
    /\ UNCHANGED <<mn, req, prior, ctxDone, rnd, served, out, uni>>
    /\ UNCHANGED storeVars
    /\ UNCHANGED pipeVars

\* request goroutines calling into the guarded maps, in any interleaving
NextLock ==
    \E t \in Threads :
        \/ LockCall(t)
        \/ MutexLock(t)
        \/ MutexUnlock(t)
        \/ AccessBegin(t)
        \/ AccessEnd(t)

SpecLock == Init /\ [][NextLock]_vars

-----------------------------------------------------------------------------
(* The process: main from signal.Notify to grpcServer.Serve *)

MaxSignals == 3
MaxRPC == 2

\* the signals registered with signal.Notify
Signals == {"SIGINT", "SIGTERM", "SIGQUIT"}

\* config.ParseFlags()
MainParseFlags ==
    /\ mn.pc = "ParseFlags"
    /\ mn' = [mn EXCEPT !.pc = "InitializeStorage"]
    /\ UNCHANGED <<req, prior, ctxDone, rnd, lk, served, out, uni>>
    /\ UNCHANGED storeVars
    /\ UNCHANGED pipeVars

\* storage.InitializeStorage(ctx): the store as Init describes it
MainInitializeStorage ==
    /\ mn.pc = "InitializeStorage"
    /\ mn' = [mn EXCEPT !.pc = "Listen"]
    /\ UNCHANGED <<req, prior, ctxDone, rnd, lk, served, out, uni>>
    /\ UNCHANGED storeVars
    /\ UNCHANGED pipeVars

\* net.Listen("tcp", ":8081"): on an error log.Fatalf ends the process,
\* otherwise main registers the service and enters grpcServer.Serve(lis)
MainListen ==
    /\ mn.pc = "Listen"
    /\ \E failed \in BOOLEAN : mn' = [mn EXCEPT !.pc = IF failed THEN "exit" ELSE "Serve"]
    /\ UNCHANGED <<req, prior, ctxDone, rnd, lk, served, out, uni>>
    /\ UNCHANGED storeVars
    /\ UNCHANGED pipeVars

\* grpcServer.Serve(lis) returns: nothing calls Stop or GracefulStop, so it
\* returns only with the error of a failed Accept, and log.Fatalf ends the
\* process; the call of run and the receive from idleConnsClosed come after
MainServeFailed ==
    /\ mn.pc = "Serve"
    /\ mn' = [mn EXCEPT !.pc = "exit", !.rpc = 0]
    /\ UNCHANGED <<req, prior, ctxDone, rnd, lk, served, out, uni>>
    /\ UNCHANGED storeVars
    /\ UNCHANGED pipeVars

\* the runtime delivers a registered signal: a send on sigint that does not
\* block, so with the one-place buffer full the signal is dropped
SignalNotify ==
    /\ mn.pc # "exit"
    /\ Len(mn.signals) < MaxSignals
    /\ \E sig \in Signals :
         mn' = [mn EXCEPT !.signals = Append(@, sig),
                          !.sigint = IF Len(@) < 1 THEN Append(@, sig) ELSE @]
    /\ UNCHANGED <<req, prior, ctxDone, rnd, lk, served, out, uni>>
    /\ UNCHANGED storeVars
    /\ UNCHANGED pipeVars

\* Serve accepts a gRPC call and runs its handler
ServeAccept ==
    /\ mn.pc = "Serve"
    /\ mn.rpc < MaxRPC
    /\ mn' = [mn EXCEPT !.rpc = @ + 1]
    /\ UNCHANGED <<req, prior, ctxDone, rnd, lk, served, out, uni>>
    /\ UNCHANGED storeVars
    /\ UNCHANGED pipeVars

\* ... and the handler returns
ServeDone ==
    /\ mn.pc = "Serve"
    /\ mn.rpc > 0
    /\ mn' = [mn EXCEPT !.rpc = @ - 1]
    /\ UNCHANGED <<req, prior, ctxDone, rnd, lk, served, out, uni>>
    /\ UNCHANGED storeVars
    /\ UNCHANGED pipeVars

NextMain ==
    \/ MainParseFlags
    \/ MainInitializeStorage
    \/ MainListen
    \/ MainServeFailed
    \/ SignalNotify
    \/ ServeAccept
    \/ ServeDone

\* main's own steps and the handlers are scheduled; a failing Accept and the
\* arrival of a signal or of a call are up to the environment
SpecMain ==
    /\ Init
    /\ [][NextMain]_vars
    /\ WF_vars(MainParseFlags)
    /\ WF_vars(MainInitializeStorage)
    /\ WF_vars(MainListen)
    /\ WF_vars(ServeDone)

-----------------------------------------------------------------------------
(* SaveBatchURL of the storage package that HandleBatchPost of
   internal/handlers calls: Mu.Lock(), defer Mu.Unlock(), SaveURL per event *)

\* what SaveURL does for one event of the batch: its db branch touches
\* neither Mu nor URLStore, the other branches lock Mu around the map write
SaveBatchURLItem == IF strategy = "db" THEN <<>> ELSE ProgramURLStore("SaveURL")

\* p, n times over
RECURSIVE Repeat(_, _)
Repeat(p, n) == IF n = 0 THEN <<>> ELSE p \o Repeat(p, n - 1)

\* SaveBatchURL(events) for n events, in program order; `failed` is an error
\* of the first SaveURL before it reaches Mu (NewProducer, the INSERT), after
\* which the loop is left and the deferred Unlock runs
SaveBatchURL(n, failed) ==
    IF failed THEN <<"Lock", "Unlock">>
    ELSE <<"Lock">> \o Repeat(SaveBatchURLItem, n) \o <<"Unlock">>

\* a request goroutine calls SaveBatchURL: HandleBatchPost with its events,
\* or any other caller with an empty list
SaveBatchURLCall(t) ==
    /\ lk.g[t].op = "none"
    /\ \E n \in 0..MaxItems, failed \in BOOLEAN :
         /\ failed => (n > 0 /\ strategy # "memory")
         /\ lk' = [lk EXCEPT !.g[t] = [op |-> "SaveBatchURL", prog |-> SaveBatchURL(n, failed),
                                        i |-> 1, in |-> FALSE]]
    /\ UNCHANGED <<mn, req, prior, ctxDone, rnd, served, out, uni>>
    /\ UNCHANGED storeVars
    /\ UNCHANGED pipeVars

\* batch saves next to the other calls on the package map
NextSaveBatch ==
    \E t \in Threads :
        \/ SaveBatchURLCall(t)
        \/ LockCall(t)
        \/ MutexLock(t)
        \/ MutexUnlock(t)
        \/ AccessBegin(t)
        \/ AccessEnd(t)

\* every goroutine keeps running; sync.Mutex hands the lock to a waiter that
\* would otherwise starve
SpecSaveBatch ==
    /\ Init
    /\ [][NextSaveBatch]_vars
    /\ \A t \in Threads : /\ SF_vars(MutexLock(t))
                           /\ WF_vars(MutexUnlock(t))
                           /\ WF_vars(AccessBegin(t))
                           /\ WF_vars(AccessEnd(t))

\* create calls whose deadline can pass at any point of the store operation
NextDeadline ==
    \/ Next
    \/ \E t \in Threads : DeadlineExceeded(t)

SpecDeadline == Init /\ [][NextDeadline]_vars

\* create and delete calls as in Next, and read requests between them
NextRead ==
    \/ Next
    \/ HandleGet
    \/ GetURL
    \/ HandleGetUserURLs
    \/ GetUserURLs
    \/ HandlePing
    \/ PingServer

SpecRead == Init /\ [][NextRead]_vars

\* the same sequence of store calls on the three strategies
NextUniform ==
    \/ UniformSaveURL
    \/ UniformGetOriginalURL
    \/ UniformGetURLsByUser
    \/ UniformBatchUpdateDeleteFlag

SpecUniform == Init /\ [][NextUniform]_vars

\* one batch request on a freshly initialised store
NextBatch ==
    \/ HandleBatchPost
    \/ HandleDeleteURLs
    \/ BatchDelete
    \/ Generator
    \/ GeneratorClose
    \/ \E w \in Workers :
        \/ Worker(w)
        \/ WorkerSend(w)
        \/ WorkerClose(w)
        \/ FanIn(w)
        \/ FanInDone(w)
    \/ FanInClose
    \/ PipelineReturn

SpecBatch == Init /\ [][NextBatch]_vars

\* the length of a batch that is longer than the pool has workers
PoolItems == 6

\* HandleDeleteURLs with a body of PoolItems ids: 202, go processDeleteBatch
HandleDeleteURLsPool ==
    /\ ~crashed
    /\ batch.kind = "none"
    /\ reply' = [handler |-> "HandleDeleteURLs", n |-> PoolItems, status |-> "StatusAccepted"]
    /\ StartPipeline("delete", [i \in 1..PoolItems |-> CodeNames[1]], UserNames[1])
    /\ UNCHANGED storeVars
    /\ UNCHANGED reqVars

\* one delete batch longer than the pool on a freshly initialised store
NextPool ==
    \/ HandleDeleteURLsPool
    \/ Generator
    \/ GeneratorClose
    \/ \E w \in Workers :
        \/ Worker(w)
        \/ WorkerSend(w)
        \/ WorkerClose(w)
        \/ FanIn(w)
        \/ FanInDone(w)
    \/ FanInClose
    \/ PipelineReturn

SpecPool == Init /\ [][NextPool]_vars

-----------------------------------------------------------------------------
(* Properties of the create path *)

\* the request of t is a finished CreateOne that was answered "new"
SavedNew(t) == req[t].op = "save" /\ req[t].pc = "ret" /\ req[t].err = NoErr

\* ... answered "already exists"
SavedDup(t) == req[t].op = "save" /\ req[t].pc = "ret" /\ req[t].err = ErrAlreadyExists

\* the store holds a record for originalURL
Present(orig) ==
    IF strategy = "db"
      THEN \E r \in short_urls : r.original_url = orig
      ELSE \E c \in DOMAIN URLStore : URLStore[c] = orig

\* the code generated for the call of t is its own: no other running call
\* carries it and the store does not hold it for another URL
FreshCode(t) ==
    LET c == req[t].event.ShortURL
        u == req[t].event.OriginalURL
    IN /\ \A t2 \in Threads \ {t} :
            (req[t2].op = "save" /\ req[t2].pc \notin {"idle", "ret"}) => req[t2].event.ShortURL # c
       /\ \A r \in short_urls : r.short_url = c => r.original_url = u
       /\ c \in DOMAIN URLStore => URLStore[c] = u

\* C1: of the SaveURL calls for one original URL that overlap (neither
\* arrived after another had been answered "new"), at most one reports "new"
\* (returns without ErrAlreadyExists).
C1_AtMostOneNew ==
    \A t1, t2 \in Threads :
        (/\ SavedNew(t1) /\ SavedNew(t2)
         /\ prior[t1] = {} /\ prior[t2] = {}
         /\ req[t1].event.OriginalURL = req[t2].event.OriginalURL)
        => t1 = t2

\* C2: the store never holds two records with the same originalURL.
C2_OneRecordPerOriginalURL ==
    /\ \A r1, r2 \in short_urls : r1.original_url = r2.original_url => r1 = r2
    /\ \A c1, c2 \in DOMAIN URLStore : URLStore[c1] = URLStore[c2] => c1 = c2

\* C3: all completed concurrent CreateOne(U) calls were given the same short code.
C3_SameCodeForAll ==
    \A t1, t2 \in Threads :
        (/\ SavedNew(t1) \/ SavedDup(t1)
         /\ SavedNew(t2) \/ SavedDup(t2)
         /\ prior[t1] = {} /\ prior[t2] = {}
         /\ req[t1].event.OriginalURL = req[t2].event.OriginalURL)
        => SaveShortURLResult(req[t1])[1] = SaveShortURLResult(req[t2])[1]

\* C4: a CreateOne(U) that arrives after CreateOne(U) was answered with code C1
\* as new, and does not hit a storage failure, is answered 409 Conflict with
\* the link of C1.
C4_SequentialDedup ==
    \A t \in Threads :
        (/\ SavedNew(t) \/ SavedDup(t)
         /\ prior[t] # {})
        => /\ Len(HandlePostResponse(req[t])) = 1
           /\ HandlePostResponse(req[t])[1].status = 409
           /\ \E c \in prior[t] : HandlePostResponse(req[t])[1].body = Link(c)

\* C5: a SaveURL call (with a code of its own) that returns while its
\* originalURL is not in the store, and without a storage failure, has persisted
\* its record and returns no existing code and no ErrAlreadyExists.
C5_AbsentURLIsPersisted ==
    [][\A t \in Threads :
        (/\ req[t].op = "save" /\ req[t].pc \notin {"idle", "ret"}
         /\ req'[t].pc = "ret"
         /\ FreshCode(t)
         /\ ~Present(req[t].event.OriginalURL)
         /\ req'[t].err # ErrStorage)
        => /\ req'[t].err = NoErr
           /\ req'[t].ret = ""
           /\ \A c \in Codes :
                 c = req[t].event.ShortURL =>
                     GetOriginalURL(c, FALSE)' = <<req[t].event.OriginalURL, FALSE, TRUE>>]_vars

\* C6: whenever SaveURL reports already-exists for U, the code it returns is
\* the short code the store holds for U.
C6_ExistingCodeBelongsToURL ==
    \A t \in Threads :
        SavedDup(t) =>
            \E r \in short_urls : /\ r.short_url = req[t].ret
                                   /\ r.original_url = req[t].event.OriginalURL

\* C7: when CreateOne(U) returns code C (a code of its own) as new, Resolve(C)
\* right after it returns (U, deleted=false, found=true).
C7_RoundTrip ==
    [][\A t \in Threads :
        (/\ req[t].op = "save" /\ req[t].pc \notin {"idle", "ret"}
         /\ FreshCode(t)
         /\ req'[t].pc = "ret" /\ req'[t].err = NoErr)
        => \A c \in Codes :
              c = req'[t].event.ShortURL =>
                  GetOriginalURL(c, FALSE)' = <<req[t].event.OriginalURL, FALSE, TRUE>>]_vars

\* the owner of the mapping with short code c
Owner(c) == {r.user_id : r \in {x \in short_urls : x.short_url = c}}

\* C10: a mapping's deleted flag changes only from false to true, only in a
\* step that is the markDeleted call of the mapping's owner, a new mapping
\* starts with deleted=false, and a tombstoned mapping stays tombstoned.
C10_TombstoneMonotone ==
    [][\A c \in Codes :
        LET a == GetOriginalURL(c, FALSE)
            b == GetOriginalURL(c, FALSE)'
        IN /\ (a[3] /\ a[2]) => (b[3] /\ b[2])
           /\ (~a[3] /\ b[3]) => ~b[2]
           /\ (a[3] /\ ~a[2] /\ b[3] /\ b[2]) =>
                \E t \in Threads : /\ req[t].pc = "delete"
                                    /\ req'[t].pc = "ret"
                                    /\ req[t].event.ShortURL = c
                                    /\ req[t].event.UserUUID \in Owner(c)]_vars

\* a mapping tombstoned by the finished delete call of its owner
C10_Witness ==
    \E r \in short_urls, t \in Threads :
        /\ r.is_deleted
        /\ req[t].op = "delete" /\ req[t].pc = "ret" /\ req[t].err = NoErr
        /\ req[t].event.ShortURL = r.short_url
        /\ req[t].event.UserUUID = r.user_id

\* C15: a CreateOne request with an empty URL is answered 400 Bad Request
\* (one write) at once, without a SaveURL call and without a change of the store.
C15_EmptyURLRejected ==
    [][\A t \in Threads :
        (req'[t] # req[t] /\ req'[t].err = ErrEmptyURL)
        => /\ req'[t].pc = "ret"
           /\ UNCHANGED storeVars
           /\ Len(HandlePostResponse(req'[t])) = 1
           /\ HandlePostResponse(req'[t])[1].status = 400]_vars

-----------------------------------------------------------------------------
(* Properties of the delete path *)

\* the owner the store holds for the mapping with short code c: the user_id
\* column of its row, or the UserUUID of its events in the file log (the map
\* in memory holds no owner)
OwnerOf(c) ==
    IF strategy = "db" THEN Owner(c)
    ELSE {fileLog[i].UserUUID : i \in {j \in DOMAIN fileLog : fileLog[j].ShortURL = c}}

\* the step in which the deleteURL worker t makes its markDeleted call
MarkDeletedStep(t) ==
    /\ req[t].op = "delete" /\ req[t].pc = "delete"
    /\ req'[t].pc = "ret" \/ crashed'

\* C11: once the worker of an accepted DeleteBatch([C], owner) has made its
\* markDeleted call for a mapping owner owns, without a storage failure,
\* Resolve(C) returns deleted=true (and by C10 keeps returning it).
C11_DeleteThenResolve ==
    [][\A t \in Threads, c \in Codes :
        (/\ MarkDeletedStep(t)
         /\ req[t].event.ShortURL = c
         /\ GetOriginalURL(c, FALSE)[3]
         /\ req[t].event.UserUUID \in OwnerOf(c)
         /\ req'[t].err # ErrStorage)
        => /\ GetOriginalURL(c, FALSE)'[3]
           /\ GetOriginalURL(c, FALSE)'[2]]_vars

\* C12: markDeleted(C, u) by a user u who is not the owner of the mapping with
\* code C returns without an error of its own and leaves every record,
\* the mapping's deleted flag included, as it was.
C12_OwnershipIsolation ==
    [][\A t \in Threads, c \in Codes :
        (/\ MarkDeletedStep(t)
         /\ req[t].event.ShortURL = c
         /\ GetOriginalURL(c, FALSE)[3]
         /\ OwnerOf(c) # {}
         /\ req[t].event.UserUUID \notin OwnerOf(c))
        => /\ ~crashed'
           /\ req'[t].pc = "ret"
           /\ req'[t].err \in {NoErr, ErrStorage}
           /\ GetOriginalURL(c, FALSE)' = GetOriginalURL(c, FALSE)
           /\ short_urls' = short_urls
           /\ URLStore' = URLStore
           /\ fileLog' = fileLog]_vars

\* C13: a markDeleted call on a mapping that is already tombstoned leaves the
\* whole store state unchanged.
C13_DeleteIdempotent ==
    [][\A t \in Threads, c \in Codes :
        (/\ MarkDeletedStep(t)
         /\ req[t].event.ShortURL = c
         /\ GetOriginalURL(c, FALSE)[3]
         /\ GetOriginalURL(c, FALSE)[2])
        => /\ ~crashed'
           /\ short_urls' = short_urls
           /\ URLStore' = URLStore
           /\ fileLog' = fileLog]_vars

\* two finished markDeleted calls of the owner on the same tombstoned mapping
C13_Witness ==
    \E r \in short_urls, t1, t2 \in Threads :
        /\ t1 # t2
        /\ r.is_deleted
        /\ \A t \in {t1, t2} :
              /\ req[t].op = "delete" /\ req[t].pc = "ret" /\ req[t].err = NoErr
              /\ req[t].event.ShortURL = r.short_url
              /\ req[t].event.UserUUID = r.user_id

-----------------------------------------------------------------------------
(* Properties of the read path *)

\* the store holds a tombstoned mapping for code c
Tombstoned(c) == \E r \in short_urls : r.short_url = c /\ r.is_deleted

\* the store holds no mapping for code c
NeverCreated(c) ==
    /\ \A r \in short_urls : r.short_url # c
    /\ c \notin DOMAIN URLStore

\* C17: Resolve (HandleGet, GetURL) of a tombstoned code, without a query
\* failure, is answered 410 Gone, and Resolve of a code without a mapping 404.
C17_GoneVersusNotFound ==
    [][(out' # out /\ out'.handler \in {"HandleGet", "GetURL"} /\ ~out'.failed)
        => \A c \in Codes :
              c = out'.arg => /\ Tombstoned(c) => out'.status = 410
                              /\ NeverCreated(c) => out'.status = 404]_vars

\* C18: a Resolve (HandleGet, GetURL) whose query met a failure of the medium
\* is answered with a storage error, not with 404 not found (nor with the URL).
C18_StorageFailureDistinguished ==
    [][(out' # out /\ out'.handler \in {"HandleGet", "GetURL"} /\ out'.failed)
        => /\ out'.status = 500
           /\ out'.url = ""]_vars

\* the records the store holds for owner u, as listByOwner renders them
OwnedBy(u) ==
    {[ShortURL |-> Link(c), OriginalURL |-> GetOriginalURL(c, FALSE)[1]]
       : c \in {x \in Codes : GetOriginalURL(x, FALSE)[3] /\ u \in OwnerOf(x)}}

\* C20: listByOwner(u) (HandleGetUserURLs, GetUserURLs), without a query
\* failure, returns exactly the records whose owner is u, tombstoned ones
\* included, and reports no retrieval error.
C20_ListByOwner ==
    [][(out' # out /\ out'.handler \in {"HandleGetUserURLs", "GetUserURLs"} /\ ~out'.failed)
        => \A u \in Users :
              u = out'.arg => /\ out'.urls = OwnedBy(u)
                              /\ out'.status # 500]_vars

\* C21: HealthCheck (HandlePing, PingServer) under the file or memory strategy
\* succeeds with "pong": no error status, no panic, the process lives on.
C21_HealthCheckNoDatabase ==
    [][(out' # out /\ out'.handler \in {"HandlePing", "PingServer"} /\ strategy # "db")
        => /\ ~out'.panic
           /\ out'.url = "pong"
           /\ out'.status \in {200, 0}
           /\ ~crashed']_vars

-----------------------------------------------------------------------------
(* Properties of the three strategies side by side *)

\* C19: given the same sequence of insert, resolve, listByOwner and markDeleted
\* calls, the relational, file-log and in-memory stores return the same
\* result for every call (and none of them panics).
C19_UniformContract ==
    \A k1, k2 \in Strategies :
        /\ uni.val[k1] = uni.val[k2]
        /\ uni.panic[k1] = uni.panic[k2]

-----------------------------------------------------------------------------
(* Properties of the batch pipelines *)

\* the batch function has returned
Returned == batch.kind # "none" /\ doneCh

\* every goroutine the batch function started has ended
AllTerminated ==
    /\ gen.pc = "done"
    /\ \A w \in Workers : wk[w].pc = "done" /\ fan[w].pc = "done"
    /\ finalCh

\* a step of one of the goroutines of the pipeline, or of the batch function
PipelineStep ==
    \/ Generator
    \/ GeneratorClose
    \/ \E w \in Workers : Worker(w) \/ WorkerSend(w) \/ WorkerClose(w) \/ FanIn(w) \/ FanInDone(w)
    \/ FanInClose
    \/ PipelineReturn

\* C8: when processBatchPost has returned, it holds exactly one result per
\* input item, and every input correlationID appears exactly once.
C8_BatchComplete ==
    (batch.kind = "post" /\ Returned) =>
        /\ Len(res) = Len(batch.items)
        /\ \A i \in DOMAIN batch.items :
              Cardinality({j \in DOMAIN res :
                             res[j].CorrelationID = batch.items[i].CorrelationID}) = 1

\* a returned batch of two items whose results arrived against the input order
C8_Witness ==
    /\ batch.kind = "post" /\ Returned
    /\ Len(batch.items) = 2
    /\ Len(res) = 2
    /\ res[1].CorrelationID = batch.items[2].CorrelationID
    /\ res[2].CorrelationID = batch.items[1].CorrelationID

ItemURL(k) ==
    LET i == CHOOSE j \in DOMAIN batch.items : batch.items[j].CorrelationID = k
    IN batch.items[i].OriginalURL

\* the code generated for the item of worker w is its own: no other worker is
\* saving under it and the store does not hold it for another URL
FreshItemCode(w) ==
    LET c == wk[w].event.ShortURL
        u == wk[w].event.OriginalURL
    IN /\ \A w2 \in Workers \ {w} : wk[w2].op = "save" => wk[w2].event.ShortURL # c
       /\ \A r \in short_urls : r.short_url = c => r.original_url = u
       /\ c \in DOMAIN URLStore => URLStore[c] = u

\* C16: in a CreateBatch (items with codes of their own), the item whose
\* SaveURL failed is sent on with an empty short code; no step of an item's
\* SaveURL, failing or not, changes the mapping of another code; an item that
\* SaveURL reports as new has its URL in the store; and when processBatchPost
\* returns from a batch with a failed item, every item has its own result.
C16_FailureIsolated ==
    [][/\ \A w \in Workers :
             (/\ wk[w].op = "save" /\ wk[w].pc = "ret" /\ wk[w].err = ErrStorage
              /\ fan[w].pc = "recv" /\ fan'[w].pc = "send")
             => /\ fan'[w].res.CorrelationID = wk[w].event.CorrelationID
                /\ fan'[w].res.ShortURL = <<>>
       /\ \A w \in Workers :
             (/\ wk[w].op = "save" /\ wk'[w].op = "save" /\ wk'[w] # wk[w]
              /\ FreshItemCode(w))
             => /\ \A c \in Codes \ {wk[w].event.ShortURL} :
                      GetOriginalURL(c, FALSE)' = GetOriginalURL(c, FALSE)
                /\ (wk'[w].pc = "ret" /\ wk'[w].err = NoErr)
                      => \A u \in URLs : u = wk[w].event.OriginalURL => Present(u)'
       /\ (/\ batch.kind = "post" /\ ~doneCh /\ doneCh'
           /\ \E j \in DOMAIN res : res[j].ShortURL = <<>>)
          => /\ Len(res) = Len(batch.items)
             /\ \A i \in DOMAIN batch.items :
                   \E j \in DOMAIN res : res[j].CorrelationID = batch.items[i].CorrelationID
             /\ \A j \in DOMAIN res :
                   res[j].ShortURL # <<>> => \E c \in Codes : res[j].ShortURL = Link(c)]_vars

\* a returned batch of two items: one failed and has an empty short code, the
\* other was inserted and has its link
C16_Witness ==
    /\ batch.kind = "post" /\ Returned
    /\ Len(res) = 2
    /\ \E j, k \in DOMAIN res :
          /\ res[j].ShortURL = <<>>
          /\ res[k].ShortURL # <<>>
          /\ Present(ItemURL(res[k].CorrelationID))
          /\ ~Present(ItemURL(res[j].CorrelationID))

\* C9: a started batch function that has not yet returned with all its
\* goroutines ended can always take a further step (so that under fair
\* scheduling it returns and leaves no goroutine behind).
C9_PipelineNeverStuck ==
    (batch.kind # "none" /\ ~(Returned /\ AllTerminated)) => ENABLED PipelineStep

\* a worker of the delete pipeline takes an id from inputCh and starts its one
\* call of BatchUpdateDeleteFlag
DeleteStarted(w) == wk[w].op # "delete" /\ wk'[w].op = "delete"

\* C22: a non-empty DeleteBatch is answered accepted in the step that starts
\* the pipeline, before any delete ran; afterwards the answer never changes,
\* every delete that does not succeed leaves the process running (it is only
\* logged), and no id is handed to the store a second time.
C22_FireAndForgetDelete ==
    [][/\ (batch.kind = "none" /\ batch'.kind = "delete")
            => /\ reply'.status = (IF reply'.handler = "BatchDelete" THEN "OK" ELSE "StatusAccepted")
               /\ short_urls' = short_urls
               /\ \A w \in Workers : wk'[w].pc = "recv"
       /\ batch.kind = "delete"
            => /\ reply' = reply
               /\ ~crashed'
               /\ \A w \in Workers :
                    DeleteStarted(w) => /\ gen'.i = gen.i + 1
                                        /\ wk'[w].event.ShortURL = batch.items[gen.i]]_vars

\* C23: a CreateOne request whose deadline passed before its store operation
\* completed ends with exactly one response, the timeout response.
C23_CreateDeadline ==
    \A t \in Threads :
        (t \in ctxDone /\ req[t].op = "save" /\ req[t].pc = "ret")
            => HandlePostResponse(req[t]) = <<[status |-> 408, body |-> <<"Request timed out">>]>>

\* the original URL short code c resolves to, "" when it resolves to none
Resolves(c) == GetOriginalURL(c, FALSE)[1]

\* C24: a short code that resolves to an original URL resolves to the same
\* URL after every step; no insert, in particular none with a colliding
\* generated code, remaps it.
C24_CodeNeverRemapped ==
    [][\A c \in Codes : Resolves(c) # "" => Resolves(c)' = Resolves(c)]_vars

\* loadURLsFromFile: the events of the log are read from the start, each one
\* executing URLStore[event.ShortURL] = event.OriginalURL on map m
RECURSIVE loadURLsFromFile(_, _)
loadURLsFromFile(m, log) ==
    IF log = <<>> THEN m
    ELSE loadURLsFromFile(MapPut(m, Head(log).ShortURL, Head(log).OriginalURL), Tail(log))

\* no SaveURL call is between its entry and its return
NoSaveRunning == \A t \in Threads : req[t].op = "save" => req[t].pc = "ret"

\* C25: file strategy, no SaveURL call running: the in-memory index is the
\* index a restart would rebuild by replaying the log into an empty map.
C25_LogReplayEquivalence ==
    (strategy = "file" /\ NoSaveRunning) => URLStore = loadURLsFromFile([c \in {} |-> ""], fileLog)

\* letters, digits, "-" and "_": the characters of unpadded URL-safe base64
URLSafeCharacters ==
    {"A", "B", "C", "D", "E", "F", "G", "H", "I", "J", "K", "L", "M", "N", "O", "P", "Q", "R",
     "S", "T", "U", "V", "W", "X", "Y", "Z", "a", "b", "c", "d", "e", "f", "g", "h", "i", "j",
     "k", "l", "m", "n", "o", "p", "q", "r", "s", "t", "u", "v", "w", "x", "y", "z", "0", "1",
     "2", "3", "4", "5", "6", "7", "8", "9", "-", "_"}

\* C26: what generateShortID returns for 6 random bytes is exactly 8
\* characters, each of the unpadded URL-safe base64 alphabet.
C26_ShortIDShape ==
    Len(rnd.b) = 6 => /\ Len(rnd.id) = 8
                      /\ \A i \in 1..Len(rnd.id) : rnd.id[i] \in URLSafeCharacters

\* a generated id that holds both characters in which the URL-safe alphabet
\* differs from the standard one
C26_Witness ==
    /\ Len(rnd.b) = 6
    /\ \E i, j \in 1..Len(rnd.id) : rnd.id[i] = "-" /\ rnd.id[j] = "_"

\* C27: finalCh is closed only when every worker's result channel is closed
\* and its fan-in goroutine has forwarded all it received and ended; once
\* finalCh is closed no result arrives on it.
C27_MergeOrdering ==
    [][/\ finalCh' => \A w \in Workers :
                        resultCh'[w] /\ fan'[w].pc = "done" /\ fan'[w].res = <<>>
       /\ finalCh => /\ res' = res
                     /\ \A w \in Workers : ~(fan[w].pc = "send" /\ fan'[w].pc = "recv")]_vars

\* finalCh is closed after results of all items of a batch went through it
C27_Witness == finalCh /\ Len(batch.items) = MaxItems /\ Len(res) = MaxItems

\* worker w starts on an item in this step: its frame becomes a fresh frame
\* standing before the store call
Received(w) == wk'[w] # wk[w] /\ wk'[w].pc \in {"call", "delete"}

\* the steps of the batch handlers and of their goroutines are all over
PipelineEnded == batch.kind # "none" /\ ~ENABLED NextBatch

\* C28, the steps: an item is received by one worker waiting on inputCh, it is
\* the next item of the input, and no other worker's frame changes; the store
\* call of a frame is entered by receiving an item only, so it runs once.
C28_DispatchStep ==
    \A w \in Workers :
        Received(w) => /\ wk[w].pc = "recv"
                       /\ gen'.i = gen.i + 1
                       /\ \E shortID \in generateShortID : wk'[w] = ItemFrame(gen.i, shortID)
                       /\ \A v \in Workers \ {w} : wk'[v] = wk[v]

\* C28: in a batch create or batch delete every item is received by exactly
\* one worker and its store operation is invoked exactly once; when the
\* pipeline has come to its end no item was skipped.
C28_ExactlyOnceDispatch ==
    /\ [][C28_DispatchStep]_vars
    /\ [](PipelineEnded => gen.i > Len(batch.items))

\* C29: when processBatchPost has returned, the short code of every result
\* that has one resolves to the original URL of the input item with the
\* result's correlation id.
C29_BatchResultsResolve ==
    (batch.kind = "post" /\ Returned) =>
        \A j \in DOMAIN res :
            res[j].ShortURL # <<>> => Resolves(res[j].ShortURL[3]) = ItemURL(res[j].CorrelationID)

\* the store holds a live (not tombstoned) mapping for originalURL
Live(orig) ==
    IF strategy = "db"
      THEN \E r \in short_urls : r.original_url = orig /\ ~r.is_deleted
      ELSE \E c \in DOMAIN URLStore : URLStore[c] = orig

\* every mapping the store holds for originalURL is tombstoned, and there is one
OnlyTombstoned(orig) == Present(orig) /\ ~Live(orig)

\* the SaveURL call of t returns in this step
SaveReturns(t) == req[t].op = "save" /\ req[t].pc # "ret" /\ req'[t].pc = "ret"

\* C30: SaveURL returns ErrAlreadyExists only when the store holds a live
\* mapping for the event's original URL; when the store's only mapping for it
\* is tombstoned, a SaveURL that returns without a storage error reports new
\* and leaves a live mapping for the URL.
C30_ExistsOnlyWhenLive ==
    [][\A t \in Threads :
          SaveReturns(t) =>
              /\ req'[t].err = ErrAlreadyExists => Live(req[t].event.OriginalURL)
              /\ (OnlyTombstoned(req[t].event.OriginalURL) /\ req'[t].err # ErrStorage)
                    => (req'[t].err = NoErr /\ Live(req[t].event.OriginalURL)')]_vars

\* a step of the SaveURL call of t on its way to ErrAlreadyExists: the SELECT,
\* the test of ExistingShortURL, or the return of the existing code
DuplicateStep(t) ==
    /\ req[t].op = "save"
    /\ req'[t] # req[t]
    /\ \/ req'[t].pc \in {"test", "dup"}
       \/ req'[t].pc = "ret" /\ req'[t].err = ErrAlreadyExists

\* C31: a SaveURL call that ends as already-exists changes no record: every
\* row keeps its short code, its owner and its deleted flag, whoever calls.
C31_DuplicateInsertFrame ==
    [][\A t \in Threads :
          DuplicateStep(t) => /\ short_urls' = short_urls
                              /\ URLStore' = URLStore
                              /\ fileLog' = fileLog]_vars

\* a call answered already-exists whose caller is not the owner of the row
\* found for its URL, which is still the owner's
C31_Witness ==
    \E t \in Threads :
        /\ SavedDup(t)
        /\ \E r \in short_urls : /\ r.original_url = req[t].event.OriginalURL
                                 /\ r.short_url = req[t].ret
                                 /\ r.user_id # req[t].event.UserUUID

\* what Resolve(c) returns without a query failure: (originalURL, deleted, found)
Resolve(c) == GetOriginalURL(c, FALSE)

\* C32: a code that Resolve finds with original URL U is found with the same
\* U after every step, tombstoned or not: no mapping is ever removed.
C32_NoHardDelete ==
    [][\A c \in Codes :
          Resolve(c)[3] => /\ Resolve(c)'[3]
                           /\ Resolve(c)'[1] = Resolve(c)[1]]_vars

\* a result is handed from worker w to its fan-in goroutine in this step
Delivered(w) == fan[w].pc = "recv" /\ fan'[w].pc = "send"

InFlight == {w \in Workers : wk[w].op # "none" /\ wk[w].pc # "ret"}

InMap(t, m) ==
    /\ lk.g[t].op # "none"
    /\ MutexOf(lk.g[t].op) = m
    /\ Instr(t) \in {"Read", "Write"}
    /\ lk.g[t].in

\* C35: a goroutine inside a read or a write of a guarded map holds the map's
\* mutex, so no two goroutines are inside the same map at the same time.
C35_LockDiscipline ==
    \A m \in Mutexes :
        /\ \A t \in Threads : InMap(t, m) => lk.mu[m] = t
        /\ \A t1, t2 \in Threads : (InMap(t1, m) /\ InMap(t2, m)) => t1 = t2

\* goroutine t is inside an append to the log file that belongs to mutex m:
\* the storage file of SaveURL, or the file of FileStorage
InAppend(t, m) ==
    /\ lk.g[t].op # "none"
    /\ MutexOf(lk.g[t].op) = m
    /\ Instr(t) = "Append"
    /\ lk.g[t].in

\* C36: at any moment at most one goroutine is inside an append to the same
\* log file.
C36_SerializedAppends ==
    \A m \in Mutexes :
        \A t1, t2 \in Threads : (InAppend(t1, m) /\ InAppend(t2, m)) => t1 = t2

\* the links the entry points return for a finished create frame: HandlePost,
\* HandleJSONPost, gRPC CreateShortURL, gRPC CreateJSONShortURL, batch create
ReturnedLinks(f) ==
    {HandlePostResponse(f)[1].body, HandleJSONPostLink(f), CreateShortURLLink(f),
     CreateJSONShortURLLink(f), WorkerResult(f).ShortURL}

\* the bare code the store call reported for a finished create frame: the
\* generated one when new, the existing one when duplicate
StoreCode(f) == IF f.err = NoErr THEN f.event.ShortURL ELSE f.ret

\* C37: for a create answered new or duplicate, the link of every entry point
\* is the base URL, one "/" and the bare code the store reported, so all entry
\* points return the same link.
C37_LinkRendering ==
    \A t \in Threads :
        (SavedNew(t) \/ SavedDup(t)) =>
            \A l \in ReturnedLinks(req[t]) : l = <<FlagBaseURL, "/", StoreCode(req[t])>>

\* a termination signal has been delivered to the process
SignalDelivered == Len(mn.signals) > 0

\* the HTTP server is shut down, idleConnsClosed is closed and main has returned
ShutDownGracefully == mn.srv = "shutdown" /\ mn.idleConnsClosed /\ mn.pc = "returned"

\* C38: once SIGINT, SIGTERM or SIGQUIT has been delivered, eventually the HTTP
\* server is shut down, idleConnsClosed is closed and main has returned.
C38_GracefulShutdown == SignalDelivered ~> ShutDownGracefully

\* C39: every call of SaveBatchURL returns.
C39_SaveBatchURLTerminates ==
    \A t \in Threads : (lk.g[t].op = "SaveBatchURL") ~> (lk.g[t].op = "none")

====
